---- MODULE Spec2Model ----
(***************************************************************************)
(* A model of fsspec/implementations/arrow.py: ArrowFSWrapper, the adapter *)
(* that presents a pyarrow filesystem (the provider) as an fsspec          *)
(* filesystem, with wrap_exceptions and ArrowFile.                         *)
(*                                                                         *)
(* A path is a sequence of one-character strings, so that "://" and a      *)
(* trailing "/" are found the way str.partition and str.rstrip find them.  *)
(***************************************************************************)
EXTENDS Integers, Sequences, FiniteSets, TLC

VARIABLES
    tree,       \* the provider's file tree: native path -> entry
    emptyRoot,  \* whether this provider resolves the empty path to its root
    pc,         \* per caller: the position inside cp_file
    cp,         \* per caller: the locals of its cp_file call
    last,       \* the last completed adapter call and its outcome
    faults,     \* what the provider's calls are subjected to in this run
    sp          \* the path the path normalizer is applied to

vars == <<tree, emptyRoot, pc, cp, last, faults, sp>>

(***************************************************************************)
(* Bounds                                                                  *)
(***************************************************************************)
\* longest path handed to _strip_protocol on its own
MaxPathLen == 6

(***************************************************************************)
(* Paths                                                                   *)
(***************************************************************************)
Str(n) == UNION {[1..k -> {"/", ":", "a"}] : k \in 0..n}

\* index of the first "://" in p, 0 when there is none
MarkerAt(p) ==
    LET hits == {i \in 1..(Len(p) - 2) :
                    p[i] = ":" /\ p[i + 1] = "/" /\ p[i + 2] = "/"}
    IN  IF hits = {} THEN 0 ELSE CHOOSE i \in hits : \A j \in hits : i <= j

\* ArrowFSWrapper._strip_protocol: the part after the first "://", if any
_strip_protocol(path) ==
    IF MarkerAt(path) > 0
    THEN SubSeq(path, MarkerAt(path) + 3, Len(path))
    ELSE path

RECURSIVE rstrip(_)
\* str.rstrip("/"): every trailing "/" removed
rstrip(p) ==
    IF Len(p) > 0 /\ p[Len(p)] = "/" THEN rstrip(SubSeq(p, 1, Len(p) - 1)) ELSE p

\* AbstractFileSystem._parent: the path up to its last "/", under the root
\* marker "/"
_parent(p) ==
    LET cuts == {i \in 1..Len(p) : p[i] = "/"}
    IN  IF cuts = {} THEN <<"/">>
        ELSE LET k == CHOOSE i \in cuts : \A j \in cuts : j <= i
                 head == SubSeq(p, 1, k - 1)
                 lead == {i \in 1..Len(head) : head[i] # "/"}
                 from == IF lead = {} THEN Len(head) + 1
                         ELSE CHOOSE i \in lead : \A j \in lead : i <= j
             IN  <<"/">> \o SubSeq(head, from, Len(head))

\* "/".join([a, b])
join(a, b) == a \o <<"/">> \o b

(***************************************************************************)
(* Failures                                                                *)
(***************************************************************************)
Exc(c, a) == [cls |-> c, args |-> a]

MsgDNE   == "Path does not exist"
MsgOther == "Input/output error"
MsgNoEnt == "No such file or directory"

\* the error numbers an OSError carries as its first argument
Errnos == {"ENOENT", "EIO"}

\* isinstance(message, str)
IsStr(x) == x \notin Errnos

\* "does not exist" in message
HasDNE(m) == m = MsgDNE

\* OSError and its subclass FileNotFoundError: what "except OSError" catches
IsOSError(e) == e.cls \in {"OSError", "FileNotFoundError"}

\* what "except FileNotFoundError" and suppress(FileNotFoundError) catch
IsFNF(e) == e.cls = "FileNotFoundError"

\* FileNotFoundError(errno.ENOENT, message)
FNF(m) == Exc("FileNotFoundError", <<"ENOENT", m>>)

ValueError == Exc("ValueError", <<"invalid argument">>)

Ok(v)    == [kind |-> "ok", val |-> v, exc |-> Exc("none", <<>>)]
Raise(e) == [kind |-> "raise", val |-> "none", exc |-> e]

\* wrap_exceptions: an OSError whose first argument is a string containing
\* "does not exist" is re-raised as FileNotFoundError(ENOENT, message)
wrap_exceptions(out) ==
    IF out.kind = "raise" /\ IsOSError(out.exc)
    THEN IF out.exc.args = <<>>
         THEN out
         ELSE LET message == Head(out.exc.args)
              IN  IF IsStr(message) /\ HasDNE(message)
                  THEN Raise(FNF(message))
                  ELSE out
    ELSE out

(***************************************************************************)
(* The provider (pyarrow.fs.FileSystem): the primitives the adapter calls  *)
(***************************************************************************)
NoFault == Exc("none", <<>>)

\* the failures a provider call can end in whatever the state of the tree: an
\* I/O failure with or without a message, and an interrupt of the call
ProviderErrors ==
    { Exc("OSError", <<MsgOther>>),
      Exc("OSError", <<>>),
      Exc("KeyboardInterrupt", <<>>) }

\* how the provider reports a missing path when it raises: as a
\* FileNotFoundError, or as a plain OSError whose message says so
NotFoundReports == {FNF(MsgNoEnt), Exc("OSError", <<MsgDNE>>)}

\* what a provider call is subjected to: nothing, a failure, or the second
\* way of reporting a missing path
Faults == {NoFault} \cup ProviderErrors \cup {Exc("OSError", <<MsgDNE>>)}

Fails(fault) == fault \in ProviderErrors

Missing(fault) == IF fault \in NotFoundReports THEN fault ELSE FNF(MsgNoEnt)

NotFound  == [type |-> "NotFound", data |-> <<>>]
Directory == [type |-> "Directory", data |-> <<>>]
File(c)   == [type |-> "File", data |-> c]

Root == <<"/">>
DirD == <<"/", "d">>
PathE == <<"/", "e">>
FileA == <<"/", "d", "/", "a">>
FileB == <<"/", "d", "/", "b">>
Tokens == {"1", "2"}
\* f".tmp.{secrets.token_hex(16)}": the prefix and the random suffix
TmpBase(tok) == <<".tmp.", tok>>

\* the names the modelled tree can hold, in the order the provider lists them
NativeSeq ==
    <<Root, DirD, FileA, FileB, join(DirD, TmpBase("1")),
      join(DirD, TmpBase("2")), PathE>>

Natives == {NativeSeq[i] : i \in 1..Len(NativeSeq)}

\* the directory a native name lies in
Up(p) == IF p = Root THEN Root ELSE _parent(p)

\* the name the provider looks up for a path
Resolve(p) == IF p = <<>> /\ emptyRoot THEN Root ELSE p

Lookup(t, p) == IF Resolve(p) \in Natives THEN t[Resolve(p)] ELSE NotFound

\* q lies strictly below directory p
Below(p, q) ==
    /\ q # p
    /\ IF p = Root THEN TRUE
       ELSE /\ Len(q) > Len(p) + 1
            /\ SubSeq(q, 1, Len(p)) = p
            /\ q[Len(p) + 1] = "/"

PR(t, o) == [tree |-> t, out |-> o]

\* the record get_file_info returns for one path
FileInfo(t, p) ==
    [path |-> p, type |-> Lookup(t, p).type, size |-> Len(Lookup(t, p).data),
     mtime |-> "mtime"]

\* get_file_info([path]): never fails for a missing path, reports NotFound
get_file_info(t, p, fault) ==
    IF Fails(fault) THEN PR(t, Raise(fault))
    ELSE PR(t, Ok(FileInfo(t, p)))

\* get_file_info(FileSelector(path)): the entries directly inside a directory
get_file_info_selector(t, p, fault) ==
    IF Fails(fault) THEN PR(t, Raise(fault))
    ELSE IF Lookup(t, p).type = "NotFound" THEN PR(t, Raise(Missing(fault)))
    ELSE IF Lookup(t, p).type # "Directory"
         THEN PR(t, Raise(Exc("OSError", <<MsgOther>>)))
    ELSE LET inside(q) == /\ q # Resolve(p) /\ Up(q) = Resolve(p)
                          /\ t[q].type # "NotFound"
         IN  PR(t, Ok([i \in 1..Len(SelectSeq(NativeSeq, inside)) |->
                        FileInfo(t, SelectSeq(NativeSeq, inside)[i])]))

\* open_input_stream(path): only a file can be read
open_input_stream(t, p, fault) ==
    IF Fails(fault) THEN PR(t, Raise(fault))
    ELSE IF Lookup(t, p).type = "NotFound" THEN PR(t, Raise(Missing(fault)))
    ELSE IF Lookup(t, p).type # "File"
         THEN PR(t, Raise(Exc("OSError", <<MsgOther>>)))
    ELSE PR(t, Ok(Resolve(p)))

\* whether a name can come to hold an entry: it is a name of the modelled
\* tree, below an existing directory
CanHold(t, p) ==
    /\ Resolve(p) \in Natives \ {Root}
    /\ t[Up(Resolve(p))].type = "Directory"

\* open_output_stream(path): creates the file, or truncates it
open_output_stream(t, p, fault) ==
    IF Fails(fault) THEN PR(t, Raise(fault))
    ELSE IF ~CanHold(t, p) THEN PR(t, Raise(Missing(fault)))
    ELSE IF Lookup(t, p).type = "Directory"
         THEN PR(t, Raise(Exc("OSError", <<MsgOther>>)))
    ELSE PR([t EXCEPT ![Resolve(p)] = File(<<>>)], Ok(Resolve(p)))

\* whether move's source is a file or an empty directory: the only sources
\* the adapter's calls are modelled with
Movable(t, src) ==
    ~\E q \in Natives : Below(Resolve(src), q) /\ t[q].type # "NotFound"

\* move(src, dst), in one step; a file replaces a file
move(t, src, dst, fault) ==
    IF Fails(fault) THEN PR(t, Raise(fault))
    ELSE IF Lookup(t, src).type = "NotFound" \/ ~CanHold(t, dst)
         THEN PR(t, Raise(Missing(fault)))
    ELSE IF \/ Lookup(t, dst).type = "Directory"
            \/ Resolve(src) = Root
            \/ Below(Resolve(src), Resolve(dst))
         THEN PR(t, Raise(Exc("OSError", <<MsgOther>>)))
    ELSE IF Resolve(src) = Resolve(dst) THEN PR(t, Ok("none"))
    ELSE PR([t EXCEPT ![Resolve(dst)] = t[Resolve(src)],
                      ![Resolve(src)] = NotFound], Ok("none"))

\* delete_file(path): only a file can be deleted
delete_file(t, p, fault) ==
    IF Fails(fault) THEN PR(t, Raise(fault))
    ELSE IF Lookup(t, p).type = "NotFound" THEN PR(t, Raise(Missing(fault)))
    ELSE IF Lookup(t, p).type # "File"
         THEN PR(t, Raise(Exc("OSError", <<MsgOther>>)))
    ELSE PR([t EXCEPT ![Resolve(p)] = NotFound], Ok("none"))

\* delete_dir(path): the directory with everything below it
delete_dir(t, p, fault) ==
    IF Fails(fault) THEN PR(t, Raise(fault))
    ELSE IF Lookup(t, p).type = "NotFound" THEN PR(t, Raise(Missing(fault)))
    ELSE IF Lookup(t, p).type # "Directory" \/ Resolve(p) = Root
         THEN PR(t, Raise(Exc("OSError", <<MsgOther>>)))
    ELSE PR([q \in Natives |->
               IF q = Resolve(p) \/ Below(Resolve(p), q) THEN NotFound ELSE t[q]],
            Ok("none"))

\* create_dir(path, recursive): with recursive the missing ancestors are
\* created and an existing directory is left alone; without it the parent must
\* exist and the directory must not
create_dir(t, p, recursive, fault) ==
    IF Fails(fault) THEN PR(t, Raise(fault))
    ELSE IF Resolve(p) \notin Natives
         THEN PR(t, Raise(Exc("OSError", <<MsgOther>>)))
    ELSE IF Lookup(t, p).type = "File" \/ t[Up(Resolve(p))].type = "File"
         THEN PR(t, Raise(Exc("OSError", <<MsgOther>>)))
    ELSE IF recursive
         THEN PR([t EXCEPT ![Up(Resolve(p))] = Directory,
                           ![Resolve(p)] = Directory], Ok("none"))
    ELSE IF t[Up(Resolve(p))].type # "Directory"
         THEN PR(t, Raise(Missing(fault)))
    ELSE IF Lookup(t, p).type = "Directory"
         THEN PR(t, Raise(Exc("OSError", <<MsgOther>>)))
    ELSE PR([t EXCEPT ![Resolve(p)] = Directory], Ok("none"))

(***************************************************************************)
(* The adapter (ArrowFSWrapper): one operator per method.  Each gives the  *)
(* tree it leaves, what the caller gets, the provider calls it made and    *)
(* how the provider call it rests on ended.                                *)
(***************************************************************************)
AR(t, o, c, pv) == [tree |-> t, out |-> o, calls |-> c, prov |-> pv]

\* ArrowFSWrapper._make_entry
_make_entry(info) ==
    IF info.type = "Directory"
    THEN Ok([name |-> info.path, size |-> info.size, type |-> "directory",
             mtime |-> info.mtime])
    ELSE IF info.type = "File"
    THEN Ok([name |-> info.path, size |-> info.size, type |-> "file",
             mtime |-> info.mtime])
    ELSE IF info.type = "NotFound"
    THEN Raise(FNF(MsgNoEnt))
    ELSE Ok([name |-> info.path, size |-> info.size, type |-> "other",
             mtime |-> info.mtime])

\* ArrowFSWrapper.ls
ls(t, path, detail, fault) ==
    LET r == get_file_info_selector(t, path, fault)
        c == <<<<"get_file_info", path>>>>
    IN  IF r.out.kind = "raise" THEN AR(t, r.out, c, r.out)
        ELSE LET entries == [i \in 1..Len(r.out.val) |-> _make_entry(r.out.val[i])]
                 bad == {i \in 1..Len(entries) : entries[i].kind = "raise"}
             IN  IF bad # {}
                 THEN AR(t, entries[CHOOSE i \in bad : \A j \in bad : i <= j],
                         c, r.out)
                 ELSE IF detail
                 THEN AR(t, Ok([i \in 1..Len(entries) |-> entries[i].val]), c, r.out)
                 ELSE AR(t, Ok([i \in 1..Len(entries) |-> entries[i].val.name]),
                         c, r.out)

\* ArrowFSWrapper.info
info(t, path0, fault) ==
    LET path == _strip_protocol(path0)
        r == get_file_info(t, path, fault)
        c == <<<<"get_file_info", path>>>>
    IN  IF r.out.kind = "raise" THEN AR(t, r.out, c, r.out)
        ELSE AR(t, _make_entry(r.out.val), c, r.out)

\* a variant of exists: every OSError of info is turned into False
exists_any_oserror(t, path0, fault) ==
    LET r == info(t, _strip_protocol(path0), fault)
    IN  IF r.out.kind = "raise" /\ IsOSError(r.out.exc)
        THEN AR(r.tree, Ok(FALSE), r.calls, r.prov)
        ELSE IF r.out.kind = "raise" THEN r
        ELSE AR(r.tree, Ok(TRUE), r.calls, r.prov)

\* ArrowFSWrapper.exists
exists(t, path0, fault) ==
    LET path == _strip_protocol(path0)
        r == info(t, path, fault)
    IN  IF r.out.kind = "raise" /\ IsFNF(r.out.exc)
        THEN AR(r.tree, Ok(FALSE), r.calls, r.prov)
        ELSE IF r.out.kind = "raise" THEN r
        ELSE AR(r.tree, Ok(TRUE), r.calls, r.prov)

\* the decorator applied to a method's result
wrapped(r) == AR(r.tree, wrap_exceptions(r.out), r.calls, r.prov)

\* ArrowFSWrapper.mv (and mv_file)
mv(t, p1, p2, fault) ==
    LET path1 == rstrip(_strip_protocol(p1))
        path2 == rstrip(_strip_protocol(p2))
        r == move(t, path1, path2, fault)
    IN  wrapped(AR(r.tree, r.out, <<<<"move", path1, path2>>>>, r.out))

\* ArrowFSWrapper.rm_file
rm_file(t, path0, fault) ==
    LET path == _strip_protocol(path0)
        r == delete_file(t, path, fault)
    IN  wrapped(AR(r.tree, r.out, <<<<"delete_file", path>>>>, r.out))

\* AbstractFileSystem.isdir: whether the path is a directory
isdir(t, path) == Lookup(t, path).type = "Directory"

\* ArrowFSWrapper.rm (maxdepth is not used)
rm(t, path0, recursive, fault) ==
    LET path == rstrip(_strip_protocol(path0))
        probe == <<"get_file_info", path>>
    IN  IF isdir(t, path)
        THEN IF recursive
             THEN LET r == delete_dir(t, path, fault)
                  IN  wrapped(AR(r.tree, r.out, <<probe, <<"delete_dir", path>>>>,
                                 r.out))
             ELSE wrapped(AR(t, Raise(ValueError), <<probe>>, Ok("none")))
        ELSE LET r == delete_file(t, path, fault)
             IN  wrapped(AR(r.tree, r.out, <<probe, <<"delete_file", path>>>>, r.out))

\* ArrowFSWrapper._open; the value is the ArrowFile handle
_open(t, path, mode, fault) ==
    IF mode = "rb"
    THEN LET r == open_input_stream(t, path, fault)
         IN  wrapped(AR(r.tree,
                        IF r.out.kind = "raise" THEN r.out
                        ELSE Ok([path |-> path, mode |-> mode, stream |-> r.out.val]),
                        <<<<"open_input_stream", path>>>>, r.out))
    ELSE IF mode = "wb"
    THEN LET r == open_output_stream(t, path, fault)
         IN  wrapped(AR(r.tree,
                        IF r.out.kind = "raise" THEN r.out
                        ELSE Ok([path |-> path, mode |-> mode, stream |-> r.out.val]),
                        <<<<"open_output_stream", path>>>>, r.out))
    ELSE wrapped(AR(t, Raise(ValueError), <<>>, Ok("none")))

\* AbstractFileSystem.open for a binary mode: normalizes the path and calls
\* _open
open(t, path, mode, fault) == _open(t, _strip_protocol(path), mode, fault)

\* ArrowFSWrapper.makedirs (exist_ok is not used)
makedirs(t, path0, exist_ok, fault) ==
    LET path == _strip_protocol(path0)
        r == create_dir(t, path, TRUE, fault)
    IN  wrapped(AR(r.tree, r.out, <<<<"create_dir", path, TRUE>>>>, r.out))

\* ArrowFSWrapper.mkdir
mkdir(t, path0, create_parents, fault) ==
    LET path == _strip_protocol(path0)
    IN  IF create_parents
        THEN wrapped(makedirs(t, path, TRUE, fault))
        ELSE LET r == create_dir(t, path, FALSE, fault)
             IN  wrapped(AR(r.tree, r.out, <<<<"create_dir", path, FALSE>>>>, r.out))

\* ArrowFSWrapper.rmdir
rmdir(t, path0, fault) ==
    LET path == _strip_protocol(path0)
        r == delete_dir(t, path, fault)
    IN  wrapped(AR(r.tree, r.out, <<<<"delete_dir", path>>>>, r.out))

(***************************************************************************)
(* ArrowFile: the handle around a provider stream                          *)
(***************************************************************************)
\* ArrowFile.__enter__: the handle itself
__enter__(h) == h

\* a variant of __exit__: leaves without closing the stream
__exit__noclose(st) == st

\* ArrowFile.__exit__: close(), forwarded to the stream; the value close()
\* returns is None, so a failure raised inside the scope goes on
__exit__(st) == "closed"

(***************************************************************************)
(* cp_file, step by step                                                   *)
(***************************************************************************)
Callers == {1, 2}

\* bytes a file holds
SrcData(n) == [i \in 1..n |-> "x"]

\* the most bytes the copied source holds
MaxData == 2

\* bytes copyfileobj moves in one read and write
ChunkLen == 1

Scheme == <<"s", ":", "/", "/">>

\* the paths callers pass to the adapter's methods
UserPaths ==
    {Root, DirD, FileA, FileB, PathE}
    \cup {Scheme \o q : q \in {DirD, FileA, FileB}}
    \cup {q \o <<"/">> : q \in {DirD, FileB}}
    \cup {Scheme \o Scheme \o FileA}

\* the paths the modelled caller passes; the properties range over UserPaths
OpPaths == {DirD, FileA, FileB, Scheme \o FileB, PathE}
MvDests == {FileB, PathE}

CpSources == {FileA, Scheme \o FileA, FileB, DirD}
CpDests   == {FileB, FileB \o <<"/">>, Scheme \o FileB, FileA}

Idle ==
    [path1 |-> <<>>, path2 |-> <<>>, tmp_fname |-> <<>>,
     lstream |-> "none", rstream |-> "none", pos |-> 0, data |-> <<>>,
     caught |-> NoFault, result |-> Ok("none"),
     \* what follows records the call for the properties; the code holds none
     \* of it
     pre |-> NotFound, opened |-> FALSE, failedAt |-> "none", orig |-> NoFault,
     delOut |-> Ok("none"), wrote |-> {}, moved |-> {}, deleted |-> {}]

\* cp_file, lines 101-102: both paths normalized, trailing "/" stripped
cp_paths(p1, p2) == <<rstrip(_strip_protocol(p1)), rstrip(_strip_protocol(p2))>>

\* a variant of token_hex: the same suffix for every call
token_hex_fixed(t, dir, taken) == {"1"}

\* secrets.token_hex(16): a suffix no entry of the directory and no other
\* call in flight has
token_hex(t, dir, taken) ==
    {tok \in Tokens : /\ Lookup(t, join(dir, TmpBase(tok))).type = "NotFound"
                      /\ join(dir, TmpBase(tok)) \notin taken}

\* a variant of tmp_name: the copy is written to the destination itself
tmp_name_dest(path2, tok) == path2

\* cp_file, line 105: the temporary name, beside the destination
tmp_name(path2, tok) == join(_parent(path2), TmpBase(tok))

\* a variant of cleanup: the temporary file is left behind
cleanup_skip(t, tmp, fault) == PR(t, Ok("none"))

\* a variant of cleanup: every failure of the delete is suppressed
cleanup_suppress_all(t, tmp, fault) ==
    LET r == delete_file(t, tmp, fault)
    IN  IF r.out.kind = "raise" THEN PR(r.tree, Ok("none")) ELSE r

\* cp_file, lines 111-112: delete_file(tmp_fname) under
\* suppress(FileNotFoundError)
cleanup(t, tmp, fault) ==
    LET r == delete_file(t, tmp, fault)
    IN  IF r.out.kind = "raise" /\ IsFNF(r.out.exc)
        THEN PR(r.tree, Ok("none"))
        ELSE r

\* the temporary names of the other calls in flight
Taken(p) == {cp[q].tmp_fname : q \in {c \in Callers \ {p} : pc[c] # "idle"}}

\* cp_file is called: the paths are normalized
CpCall(p, p1, p2) ==
    /\ pc[p] = "idle"
    /\ pc' = [pc EXCEPT ![p] = "open_src"]
    /\ cp' = [cp EXCEPT ![p] = [Idle EXCEPT !.path1 = cp_paths(p1, p2)[1],
                                            !.path2 = cp_paths(p1, p2)[2],
                                            !.pre = Lookup(tree, cp_paths(p1, p2)[2])]]
    /\ UNCHANGED <<tree, emptyRoot, last, faults, sp>>

\* line 104: the source is opened; line 105: the temporary name is drawn
CpOpenSrc(p) ==
    /\ pc[p] = "open_src"
    /\ \E fault \in faults :
         LET r == _open(tree, cp[p].path1, "rb", fault)
         IN  IF r.out.kind = "raise"
             THEN /\ cp' = [cp EXCEPT ![p].result = wrap_exceptions(r.out),
                                      ![p].caught = r.prov.exc,
                                      ![p].failedAt = "open_src"]
                  /\ pc' = [pc EXCEPT ![p] = "done"]
             ELSE \E tok \in token_hex(tree, _parent(cp[p].path2), Taken(p)) :
                    /\ cp' = [cp EXCEPT
                                ![p].lstream = "open",
                                ![p].opened = TRUE,
                                ![p].data =
                                    Lookup(tree, __enter__(r.out.val).stream).data,
                                ![p].tmp_fname = tmp_name(cp[p].path2, tok)]
                    /\ pc' = [pc EXCEPT ![p] = "open_tmp"]
    /\ UNCHANGED <<tree, emptyRoot, last, faults, sp>>

\* line 107: the temporary file is opened for writing
CpOpenTmp(p) ==
    /\ pc[p] = "open_tmp"
    /\ \E fault \in faults :
         LET r == open(tree, cp[p].tmp_fname, "wb", fault)
         IN  IF r.out.kind = "raise"
             THEN /\ cp' = [cp EXCEPT ![p].caught = r.out.exc,
                                      ![p].orig = r.out.exc,
                                      ![p].failedAt = "open_tmp"]
                  /\ pc' = [pc EXCEPT ![p] = "cleanup"]
                  /\ UNCHANGED tree
             ELSE /\ cp' = [cp EXCEPT ![p].rstream = "open",
                                      ![p].wrote = @ \cup {r.out.val.stream}]
                  /\ pc' = [pc EXCEPT ![p] = "copy"]
                  /\ tree' = r.tree
    /\ UNCHANGED <<emptyRoot, last, faults, sp>>

\* line 108, one round of shutil.copyfileobj: a read of the source, then a
\* write of what was read to the temporary file; an empty read ends the copy
CpCopy(p) ==
    /\ pc[p] = "copy"
    /\ \E fault \in faults \ {Exc("OSError", <<MsgDNE>>)}, at \in {"read", "write"} :
         LET n == IF Len(cp[p].data) - cp[p].pos < ChunkLen
                  THEN Len(cp[p].data) - cp[p].pos ELSE ChunkLen
             buf == SubSeq(cp[p].data, cp[p].pos + 1, cp[p].pos + n)
             target == Resolve(cp[p].tmp_fname)
         IN  IF Fails(fault) /\ (at = "read" \/ n > 0)
             THEN /\ cp' = [cp EXCEPT ![p].caught = fault,
                                      ![p].orig = fault,
                                      ![p].failedAt = at]
                  /\ pc' = [pc EXCEPT ![p] = "exit_tmp"]
                  /\ UNCHANGED tree
             ELSE IF n = 0
             THEN /\ pc' = [pc EXCEPT ![p] = "exit_tmp"]
                  /\ UNCHANGED <<tree, cp>>
             ELSE /\ tree[target].type = "File"
                  /\ tree' = [tree EXCEPT ![target] = File(@.data \o buf)]
                  /\ cp' = [cp EXCEPT ![p].pos = @ + n]
                  /\ UNCHANGED pc
    /\ UNCHANGED <<emptyRoot, last, faults, sp>>

\* line 107, leaving the inner with: the temporary stream is closed
CpExitTmp(p) ==
    /\ pc[p] = "exit_tmp"
    /\ cp' = [cp EXCEPT ![p].rstream = __exit__(@)]
    /\ pc' = [pc EXCEPT ![p] = IF cp[p].caught = NoFault THEN "move" ELSE "cleanup"]
    /\ UNCHANGED <<tree, emptyRoot, last, faults, sp>>

\* line 109: the temporary file is moved onto the destination
CpMove(p) ==
    /\ pc[p] = "move"
    /\ \E fault \in faults :
         LET r == move(tree, cp[p].tmp_fname, cp[p].path2, fault)
         IN  IF r.out.kind = "raise"
             THEN /\ cp' = [cp EXCEPT ![p].caught = r.out.exc,
                                      ![p].orig = r.out.exc,
                                      ![p].failedAt = "move"]
                  /\ pc' = [pc EXCEPT ![p] = "cleanup"]
                  /\ UNCHANGED tree
             ELSE /\ cp' = [cp EXCEPT ![p].moved = @ \cup {Resolve(cp[p].tmp_fname)}]
                  /\ pc' = [pc EXCEPT ![p] = "exit_src"]
                  /\ tree' = r.tree
    /\ UNCHANGED <<emptyRoot, last, faults, sp>>

\* lines 110-113: the temporary file is deleted, FileNotFoundError
\* suppressed, and the failure raised again
CpCleanup(p) ==
    /\ pc[p] = "cleanup"
    /\ \E fault \in faults :
         LET r == cleanup(tree, cp[p].tmp_fname, fault)
         IN  /\ cp' = [cp EXCEPT
                         ![p].caught = IF r.out.kind = "raise" THEN r.out.exc ELSE @,
                         ![p].delOut = delete_file(tree, cp[p].tmp_fname, fault).out,
                         ![p].deleted = IF r.tree # tree
                                        THEN @ \cup {Resolve(cp[p].tmp_fname)} ELSE @]
             /\ tree' = r.tree
    /\ pc' = [pc EXCEPT ![p] = "exit_src"]
    /\ UNCHANGED <<emptyRoot, last, faults, sp>>

\* line 104, leaving the outer with: the source stream is closed; then the
\* decorator of cp_file sees the outcome
CpExitSrc(p) ==
    /\ pc[p] = "exit_src"
    /\ cp' = [cp EXCEPT ![p].lstream = __exit__(@),
                        ![p].result = wrap_exceptions(
                            IF cp[p].caught = NoFault THEN Ok("none")
                            ELSE Raise(cp[p].caught))]
    /\ pc' = [pc EXCEPT ![p] = "done"]
    /\ UNCHANGED <<tree, emptyRoot, last, faults, sp>>

\* cp_file has returned or raised: the caller goes on
CpReturn(p) ==
    /\ pc[p] = "done"
    /\ pc' = [pc EXCEPT ![p] = "idle"]
    /\ cp' = [cp EXCEPT ![p] = Idle]
    /\ UNCHANGED <<tree, emptyRoot, last, faults, sp>>

\* cp_file up to its first provider call: the paths normalized, the source
\* opened, the decorator applied
cp_enter(t, p1, p2, fault) == wrapped(_open(t, cp_paths(p1, p2)[1], "rb", fault))

Methods ==
    {"ls", "info", "exists", "cp_file", "mv", "rm_file", "rm", "open", "mkdir",
     "makedirs", "rmdir"}

\* a call of the adapter's method named op
Call(op, t, p, p2, flag, fault) ==
    CASE op = "ls" -> ls(t, p, flag, fault)
      [] op = "info" -> info(t, p, fault)
      [] op = "exists" -> exists(t, p, fault)
      [] op = "cp_file" -> cp_enter(t, p, p2, fault)
      [] op = "mv" -> mv(t, p, p2, fault)
      [] op = "rm_file" -> rm_file(t, p, fault)
      [] op = "rm" -> rm(t, p, flag, fault)
      [] op = "open" -> open(t, p, IF flag THEN "rb" ELSE "wb", fault)
      [] op = "mkdir" -> mkdir(t, p, flag, fault)
      [] op = "makedirs" -> makedirs(t, p, flag, fault)
      [] op = "rmdir" -> rmdir(t, p, fault)

(***************************************************************************)
(* The adapter's other methods, each one call from start to end            *)
(***************************************************************************)
\* calls are synchronous: a caller starts a method when none is in progress
Quiet == \A p \in Callers : pc[p] = "idle"

Apply(name, r) ==
    /\ tree' = r.tree
    /\ last' = [op |-> name, out |-> r.out]
    /\ UNCHANGED <<emptyRoot, pc, cp, faults, sp>>

DoLs ==
    /\ Quiet
    /\ \E path \in OpPaths, detail \in BOOLEAN, fault \in faults :
         Apply("ls", ls(tree, path, detail, fault))

DoInfo ==
    /\ Quiet
    /\ \E path \in OpPaths, fault \in faults :
         Apply("info", info(tree, path, fault))

DoExists ==
    /\ Quiet
    /\ \E path \in OpPaths, fault \in faults :
         Apply("exists", exists(tree, path, fault))

DoMv ==
    /\ Quiet
    /\ \E p1 \in OpPaths, p2 \in MvDests, fault \in faults :
         /\ Movable(tree, cp_paths(p1, p2)[1])
         /\ Apply("mv", mv(tree, p1, p2, fault))

DoRmFile ==
    /\ Quiet
    /\ \E path \in OpPaths, fault \in faults :
         Apply("rm_file", rm_file(tree, path, fault))

DoRm ==
    /\ Quiet
    /\ \E path \in OpPaths, recursive \in BOOLEAN, fault \in faults :
         Apply("rm", rm(tree, path, recursive, fault))

DoOpen ==
    /\ Quiet
    /\ \E path \in OpPaths, mode \in {"rb", "wb", "rb+"}, fault \in faults :
         Apply("open", open(tree, path, mode, fault))

DoMkdir ==
    /\ Quiet
    /\ \E path \in OpPaths, create_parents \in BOOLEAN, fault \in faults :
         Apply("mkdir", mkdir(tree, path, create_parents, fault))

DoMakedirs ==
    /\ Quiet
    /\ \E path \in OpPaths, exist_ok \in BOOLEAN, fault \in faults :
         Apply("makedirs", makedirs(tree, path, exist_ok, fault))

DoRmdir ==
    /\ Quiet
    /\ \E path \in OpPaths, fault \in faults :
         Apply("rmdir", rmdir(tree, path, fault))

(***************************************************************************)
(* One caller using the adapter's single-call methods                      *)
(***************************************************************************)
InitTree(a, b, e) ==
    [q \in Natives |->
        IF q \in {Root, DirD} THEN Directory
        ELSE IF q = FileA THEN a
        ELSE IF q = FileB THEN b
        ELSE IF q = PathE THEN e
        ELSE NotFound]

Init ==
    /\ tree = InitTree(File(SrcData(MaxData)), File(<<"z">>), NotFound)
    /\ emptyRoot \in BOOLEAN
    /\ pc = [p \in Callers |-> "idle"]
    /\ cp = [p \in Callers |-> Idle]
    /\ last = [op |-> "none", out |-> Ok("none")]
    /\ faults = {NoFault, Exc("OSError", <<MsgDNE>>), Exc("OSError", <<MsgOther>>)}
    /\ sp = <<>>

Next ==
    \/ DoLs \/ DoInfo \/ DoExists \/ DoMv \/ DoRmFile \/ DoRm \/ DoOpen
    \/ DoMkdir \/ DoMakedirs \/ DoRmdir

Spec == Init /\ [][Next]_vars

(***************************************************************************)
(* One caller copying files, call after call                               *)
(***************************************************************************)
InitCp ==
    /\ \E n \in 0..MaxData, b \in {NotFound, File(<<"z">>), Directory} :
         tree = InitTree(File(SrcData(n)), b, NotFound)
    /\ emptyRoot = FALSE
    /\ pc = [p \in Callers |-> "idle"]
    /\ cp = [p \in Callers |-> Idle]
    /\ last = [op |-> "none", out |-> Ok("none")]
    /\ faults = Faults
    /\ sp = <<>>

CpStart == \E p1 \in CpSources, p2 \in CpDests : CpCall(1, p1, p2)

NextCp ==
    \/ CpStart
    \/ CpOpenSrc(1) \/ CpOpenTmp(1) \/ CpCopy(1) \/ CpExitTmp(1) \/ CpMove(1)
    \/ CpCleanup(1) \/ CpExitSrc(1) \/ CpReturn(1)

SpecCp == InitCp /\ [][NextCp]_vars

(***************************************************************************)
(* Two callers copying different sources to the same destination, their    *)
(* steps interleaved                                                       *)
(***************************************************************************)
InitConc ==
    /\ \E n \in 1..MaxData, b \in {NotFound, File(<<"z">>)} :
         tree = InitTree(File(SrcData(n)), b, File(<<"y">>))
    /\ emptyRoot = FALSE
    /\ pc = [p \in Callers |-> "idle"]
    /\ cp = [p \in Callers |-> Idle]
    /\ last = [op |-> "none", out |-> Ok("none")]
    /\ faults = {NoFault, Exc("OSError", <<MsgOther>>)}
    /\ sp = <<>>

\* the source each caller copies
SourceOf(p) == IF p = 1 THEN FileA ELSE PathE

NextConc ==
    \E p \in Callers :
        \/ CpCall(p, SourceOf(p), FileB)
        \/ CpOpenSrc(p) \/ CpOpenTmp(p) \/ CpCopy(p) \/ CpExitTmp(p) \/ CpMove(p)
        \/ CpCleanup(p) \/ CpExitSrc(p)

SpecConc == InitConc /\ [][NextConc]_vars

\* every entry of the tree lies in a directory
TreeOK == \A q \in Natives \ {Root} :
    tree[q].type # "NotFound" => tree[Up(q)].type = "Directory"

(***************************************************************************)
(* The path normalizer on its own                                          *)
(***************************************************************************)
InitStrip ==
    /\ sp \in Str(MaxPathLen)
    /\ tree = <<>> /\ emptyRoot = FALSE /\ pc = <<>> /\ cp = <<>> /\ last = <<>>
    /\ faults = {}

Strip ==
    /\ sp' = _strip_protocol(sp)
    /\ UNCHANGED <<tree, emptyRoot, pc, cp, last, faults>>

NextStrip == Strip

SpecStrip == InitStrip /\ [][NextStrip]_vars

\* C7: _strip_protocol is idempotent on every path that contains "://",
\* paths with several markers included.
C7_Idempotent ==
    MarkerAt(sp) > 0 =>
        _strip_protocol(_strip_protocol(sp)) = _strip_protocol(sp)

(***************************************************************************)
(* Properties of cp_file                                                   *)
(***************************************************************************)
Active == {p \in Callers : pc[p] # "idle"}

\* the names ls lists in the directory of a path
Listed(path) ==
    LET r == ls(tree, _parent(path), FALSE, NoFault)
    IN  IF r.out.kind = "ok" THEN {r.out.val[i] : i \in 1..Len(r.out.val)} ELSE {}

\* the call failed inside the try block: opening the temporary file, a read
\* or a write of the copy, or the move
FailedInTry(p) ==
    pc[p] = "done" /\ cp[p].failedAt \in {"open_tmp", "read", "write", "move"}

\* C1: from the call of cp_file(path1, path2) to its end, whatever fails,
\* path2 holds what it held before the call or the whole content of path1,
\* and cp_file never opens path2 for writing.
C1_DestIntact ==
    \A p \in Active :
        /\ Lookup(tree, cp[p].path2) \in
               {cp[p].pre} \cup (IF cp[p].opened THEN {File(cp[p].data)} ELSE {})
        /\ Resolve(cp[p].path2) \notin cp[p].wrote

\* C1, its case: a write of the copy has failed with the temporary file
\* partly written, and path2 still holds its earlier content.
C1_Witness ==
    \E p \in Active :
        /\ pc[p] = "cleanup" /\ cp[p].failedAt = "write" /\ cp[p].pos > 0
        /\ Lookup(tree, cp[p].tmp_fname) = File(SubSeq(cp[p].data, 1, cp[p].pos))
        /\ cp[p].pre = File(<<"z">>)
        /\ Lookup(tree, cp[p].path2) = cp[p].pre

\* the read of the source failed after the temporary file was created, and
\* the destination was absent before the call
ReadFailed(p) ==
    /\ pc[p] = "done" /\ cp[p].failedAt = "read" /\ cp[p].result.kind = "raise"
    /\ cp[p].pre.type = "NotFound"

\* C2 as stated: once cp_file has raised after a failed read, the listing of
\* the destination's directory shows neither the destination nor the
\* temporary name.
C2_Original ==
    \A p \in Callers :
        ReadFailed(p) =>
            /\ cp[p].path2 \notin Listed(cp[p].path2)
            /\ cp[p].tmp_fname \notin Listed(cp[p].path2)

\* C2 as amended: once cp_file has raised after a failed read, the listing
\* never shows the destination, and it shows no temporary name unless the
\* delete of the temporary file itself failed.
C2_Amended ==
    \A p \in Callers :
        ReadFailed(p) =>
            /\ cp[p].path2 \notin Listed(cp[p].path2)
            /\ cp[p].delOut.kind = "ok" => cp[p].tmp_fname \notin Listed(cp[p].path2)

\* C2, its case: the read failed after part of the source was copied, the
\* delete succeeded, and the directory lists neither name.
C2_Witness ==
    \E p \in Callers :
        /\ ReadFailed(p) /\ cp[p].pos > 0 /\ cp[p].delOut.kind = "ok"
        /\ cp[p].deleted = {cp[p].tmp_fname}
        /\ Listed(cp[p].path2) \cap {cp[p].path2, cp[p].tmp_fname} = {}

C10_StreamsClosed ==
    \A p \in Callers :
        /\ pc[p] = "done" =>
              /\ cp[p].lstream = (IF cp[p].opened THEN "closed" ELSE "none")
              /\ cp[p].rstream = (IF cp[p].wrote # {} THEN "closed" ELSE "none")
        /\ pc[p] \in {"move", "cleanup", "exit_src"} => cp[p].rstream # "open"

\* C10, its case: cp_file has raised after a failed write, with both
\* streams opened and both closed.
C10_Witness ==
    \E p \in Callers :
        /\ pc[p] = "done" /\ cp[p].result.kind = "raise" /\ cp[p].failedAt = "write"
        /\ cp[p].lstream = "closed" /\ cp[p].rstream = "closed"

\* C4: with two cp_file calls to one destination interleaved, each call
\* writes, moves and deletes only its own temporary file, the two temporary
\* names differ, and the destination holds what it held before or the whole
\* content of one of the sources.
C4_NoCollision ==
    /\ \A p \in Active :
          cp[p].wrote \cup cp[p].moved \cup cp[p].deleted \subseteq {cp[p].tmp_fname}
    /\ \A p \in Active : \A q \in Active \ {p} :
          cp[p].opened /\ cp[q].opened => cp[p].tmp_fname # cp[q].tmp_fname
    /\ Active # {} =>
          tree[FileB] \in {cp[p].pre : p \in Active}
                          \cup {File(cp[p].data) : p \in {q \in Active : cp[q].opened}}

\* C4, its case: both copies are under way at once, each with part of its
\* source written to its own temporary file.
C4_Witness ==
    /\ pc[1] = "copy" /\ pc[2] = "copy"
    /\ cp[1].pos > 0 /\ cp[2].pos > 0
    /\ cp[1].tmp_fname # cp[2].tmp_fname

(***************************************************************************)
(* Properties of the single-call methods                                   *)
(***************************************************************************)
\* the call returned the value v
Gives(o, v) == o.kind = "ok" /\ o.val = v

\* C5: rm(path, recursive=False) on an existing directory fails with
\* ValueError and leaves the tree as it was, whatever the tree and the
\* directory.
C5_RmDirectory ==
    \A path \in UserPaths, fault \in Faults :
        Lookup(tree, _strip_protocol(path)).type = "Directory" =>
            /\ rm(tree, path, FALSE, fault).out = Raise(ValueError)
            /\ rm(tree, path, FALSE, fault).tree = tree

C8_AllNormalized ==
    \A op \in Methods, p \in UserPaths, p2 \in MvDests, flag \in BOOLEAN,
       fault \in Faults :
        LET r == Call(op, tree, p, p2, flag, fault)
        IN  r.prov.kind = "raise" =>
                IF op = "exists" /\ IsFNF(wrap_exceptions(r.prov).exc)
                THEN Gives(r.out, FALSE)
                ELSE r.out = wrap_exceptions(r.prov)

\* C9: every method gives the same provider calls, the same result and the
\* same tree for "s://" followed by a path as for the path.
C9_SchemeIrrelevant ==
    \A op \in Methods, p \in UserPaths, p2 \in MvDests, flag \in BOOLEAN,
       fault \in Faults :
        Call(op, tree, Scheme \o p, Scheme \o p2, flag, fault)
            = Call(op, tree, p, p2, flag, fault)

====
